---- MODULE Spec2Model ----
(***************************************************************************)
(* A model of prsw.stat.routing_status.RoutingStatus: the constructor      *)
(* (resource detection, the single call to RIPEstat._get) and the          *)
(* accessors that reshape the response payload.                            *)
(*                                                                         *)
(* Python values are modelled structurally.  A str is a sequence of        *)
(* one-character strings, an int is an integer, and every value that an    *)
(* operation hands back is a record with one field, named after its Python *)
(* type, so that a conversion (str(), int(), ip_network(),                 *)
(* datetime.fromisoformat()) is computed and never the identity.           *)
(***************************************************************************)
EXTENDS Integers, Sequences, FiniteSets, TLC

(***************************************************************************)
(* Bounds of the model.                                                    *)
(***************************************************************************)
\* longest string of the exhaustively enumerated resource strings
MaxLen == 2
\* live RoutingStatus instances
MaxInstances == 2
\* calls of RIPEstat._get (the mock's call_count)
MaxCalls == 3

(***************************************************************************)
(* Text: characters, decimal and hexadecimal digits, split and join.       *)
(***************************************************************************)
Digits == <<"0", "1", "2", "3", "4", "5", "6", "7", "8", "9">>

HexDigits == <<"0", "1", "2", "3", "4", "5", "6", "7", "8", "9",
               "a", "b", "c", "d", "e", "f">>

UpperHex == <<"A", "B", "C", "D", "E", "F">>

IsDigit(c) == \E i \in 1..10 : Digits[i] = c

IsHex(c) == (\E i \in 1..16 : HexDigits[i] = c) \/ (\E i \in 1..6 : UpperHex[i] = c)

DigitVal(c) == (CHOOSE i \in 1..10 : Digits[i] = c) - 1

HexVal(c) ==
  IF \E i \in 1..16 : HexDigits[i] = c
    THEN (CHOOSE i \in 1..16 : HexDigits[i] = c) - 1
    ELSE (CHOOSE i \in 1..6 : UpperHex[i] = c) + 9

\* str.isdigit() on an ASCII string: non-empty and every character a digit
AllDigits(s) == Len(s) > 0 /\ \A i \in 1..Len(s) : IsDigit(s[i])

RECURSIVE DecVal(_)
\* int(s) for a string of decimal digits (leading zeros are dropped)
DecVal(s) ==
  IF Len(s) = 0 THEN 0
  ELSE 10 * DecVal(SubSeq(s, 1, Len(s) - 1)) + DigitVal(s[Len(s)])

RECURSIVE HexNum(_)
\* int(s, 16) for a string of hexadecimal digits
HexNum(s) ==
  IF Len(s) = 0 THEN 0
  ELSE 16 * HexNum(SubSeq(s, 1, Len(s) - 1)) + HexVal(s[Len(s)])

RECURSIVE NatToStr(_)
\* the decimal digits of a natural number
NatToStr(n) ==
  IF n < 10 THEN <<Digits[n + 1]>>
  ELSE NatToStr(n \div 10) \o <<Digits[(n % 10) + 1]>>

RECURSIVE NatToHex(_)
\* '%x' % n
NatToHex(n) ==
  IF n < 16 THEN <<HexDigits[n + 1]>>
  ELSE NatToHex(n \div 16) \o <<HexDigits[(n % 16) + 1]>>

\* str(n) of a Python int
IntToStr(n) == IF n < 0 THEN <<"-">> \o NatToStr(-n) ELSE NatToStr(n)

RECURSIVE Split(_, _)
\* s.split(sep) for a one-character separator: always at least one part
Split(s, sep) ==
  IF \A i \in 1..Len(s) : s[i] # sep THEN <<s>>
  ELSE LET i == CHOOSE j \in 1..Len(s) :
                   s[j] = sep /\ \A k \in 1..(j - 1) : s[k] # sep
       IN <<SubSeq(s, 1, i - 1)>> \o Split(SubSeq(s, i + 1, Len(s)), sep)

RECURSIVE Join(_, _)
\* sep.join(parts)
Join(parts, sep) ==
  IF Len(parts) = 0 THEN <<>>
  ELSE IF Len(parts) = 1 THEN parts[1]
  ELSE parts[1] \o <<sep>> \o Join(Tail(parts), sep)

Contains(s, c) == \E i \in 1..Len(s) : s[i] = c

RECURSIVE Pow2(_)
Pow2(n) == IF n = 0 THEN 1 ELSE 2 * Pow2(n - 1)

Clamp(n, lo, hi) == IF n < lo THEN lo ELSE IF n > hi THEN hi ELSE n

(***************************************************************************)
(* Python values.  PyInt(n) and PyStr(s) are the two kinds of resource a   *)
(* caller passes; None is the value of a function that falls off its end.  *)
(***************************************************************************)
PyInt(n) == [int |-> n]

PyStr(s) == [str |-> s]

None == [NoneType |-> 0]

\* the Python type of a value, and what it holds
Kind(x) == CHOOSE k \in DOMAIN x : TRUE

Val(x) == x[Kind(x)]


(***************************************************************************)
(* ipaddress.ip_network, as routing_status.py uses it.  An address is its  *)
(* sequence of groups (4 octets, or 8 hextets), a network is               *)
(* [ok, ver, addr, len]; NoNet is the raised ValueError.                   *)
(***************************************************************************)
NoNet == [ok |-> FALSE, ver |-> 0, addr |-> <<>>, len |-> 0]

Net(ver, addr, len) == [ok |-> TRUE, ver |-> ver, addr |-> addr, len |-> len]

\* IPv4Address._parse_octet: decimal, at most 3 digits, no leading zero, <= 255
ValidOctet(s) ==
  /\ AllDigits(s)
  /\ Len(s) <= 3
  /\ ~(Len(s) > 1 /\ s[1] = "0")
  /\ DecVal(s) <= 255

\* IPv4Address(s): exactly four valid octets
ValidV4Addr(s) ==
  LET p == Split(s, ".")
  IN Len(p) = 4 /\ \A i \in 1..4 : ValidOctet(p[i])

V4Addr(s) == LET p == Split(s, ".") IN [i \in 1..4 |-> DecVal(p[i])]

\* the 32 bits of an IPv4 address, most significant first
V4Bits(octs) == [i \in 1..32 |-> (octs[((i - 1) \div 8) + 1] \div Pow2(7 - ((i - 1) % 8))) % 2]

\* bits = 1^n 0^(32-n)
IsNetmask(bits, n) == \A i \in 1..32 : bits[i] = (IF i <= n THEN 1 ELSE 0)

\* bits = 0^n 1^(32-n)
IsHostmask(bits, n) == \A i \in 1..32 : bits[i] = (IF i <= n THEN 0 ELSE 1)

\* _prefix_from_prefix_string: ASCII digits, within 0..max
ValidPrefixString(s, max) == AllDigits(s) /\ Len(s) <= 9 /\ DecVal(s) <= max

\* _prefix_from_ip_string: a dotted-quad netmask, else a dotted-quad hostmask
ValidMaskString(s) ==
  /\ ValidV4Addr(s)
  /\ \E n \in 0..32 : IsNetmask(V4Bits(V4Addr(s)), n) \/ IsHostmask(V4Bits(V4Addr(s)), n)

MaskStringLen(s) ==
  LET bits == V4Bits(V4Addr(s))
  IN IF \E n \in 0..32 : IsNetmask(bits, n)
       THEN CHOOSE n \in 0..32 : IsNetmask(bits, n)
       ELSE CHOOSE n \in 0..32 : IsHostmask(bits, n)

\* the address with the bits after the first len cleared; w is the group width
MaskAddr(addr, len, w) ==
  [i \in 1..Len(addr) |->
     addr[i] - (addr[i] % Pow2(w - Clamp(len - w * (i - 1), 0, w)))]

\* network_address & netmask, or ValueError("has host bits set") when strict
MakeNet(ver, addr, len, w, strict) ==
  IF MaskAddr(addr, len, w) = addr THEN Net(ver, addr, len)
  ELSE IF strict THEN NoNet
  ELSE Net(ver, MaskAddr(addr, len, w), len)

\* IPv4Network(s, strict)
IPv4Network(s, strict) ==
  LET p == Split(s, "/")
  IN IF Len(p) > 2 \/ ~ValidV4Addr(p[1]) THEN NoNet
     ELSE IF Len(p) = 1 THEN MakeNet(4, V4Addr(p[1]), 32, 8, strict)
     ELSE IF ValidPrefixString(p[2], 32)
       THEN MakeNet(4, V4Addr(p[1]), DecVal(p[2]), 8, strict)
     ELSE IF ValidMaskString(p[2])
       THEN MakeNet(4, V4Addr(p[1]), MaskStringLen(p[2]), 8, strict)
     ELSE NoNet

\* IPv6Address._parse_hextet: 1 to 4 hexadecimal digits
ValidHextet(s) == Len(s) >= 1 /\ Len(s) <= 4 /\ \A i \in 1..Len(s) : IsHex(s[i])

\* the parts of s.split(':'), an IPv4-style suffix converted to two hextets
V6Parts(s) ==
  LET p == Split(s, ":")
      last == p[Len(p)]
  IN IF Contains(last, ".") /\ ValidV4Addr(last)
       THEN LET o == V4Addr(last)
            IN SubSeq(p, 1, Len(p) - 1)
                 \o <<NatToHex(o[1] * 256 + o[2]), NatToHex(o[3] * 256 + o[4])>>
       ELSE p

\* the indices, endpoints disregarded, of an empty part: the place of a '::'
SkipIndices(p) == {i \in 2..(Len(p) - 1) : p[i] = <<>>}

SkipIndex(p) == CHOOSE i \in SkipIndices(p) : TRUE

\* parts copied from before and from after the '::'
PartsHi(p) == IF p[1] = <<>> THEN SkipIndex(p) - 2 ELSE SkipIndex(p) - 1

PartsLo(p) ==
  IF p[Len(p)] = <<>> THEN Len(p) - SkipIndex(p) - 1 ELSE Len(p) - SkipIndex(p)

\* IPv6Address(s): _ip_int_from_string accepts s
ValidV6Addr(s) ==
  LET raw == Split(s, ":")
      p == V6Parts(s)
  IN /\ Len(s) > 0
     /\ Len(raw) >= 3
     /\ (Contains(raw[Len(raw)], ".") => ValidV4Addr(raw[Len(raw)]))
     /\ Len(p) <= 9
     /\ Cardinality(SkipIndices(p)) <= 1
     /\ IF SkipIndices(p) # {}
          THEN /\ (p[1] = <<>> => SkipIndex(p) = 2)
               /\ (p[Len(p)] = <<>> => SkipIndex(p) = Len(p) - 1)
               /\ 8 - (PartsHi(p) + PartsLo(p)) >= 1
               /\ \A i \in 1..PartsHi(p) : ValidHextet(p[i])
               /\ \A i \in (Len(p) - PartsLo(p) + 1)..Len(p) : ValidHextet(p[i])
          ELSE /\ Len(p) = 8
               /\ \A i \in 1..8 : ValidHextet(p[i])

V6Addr(s) ==
  LET p == V6Parts(s)
  IN IF SkipIndices(p) # {}
       THEN [i \in 1..8 |->
               IF i <= PartsHi(p) THEN HexNum(p[i])
               ELSE IF i > 8 - PartsLo(p) THEN HexNum(p[Len(p) - (8 - i)])
               ELSE 0]
       ELSE [i \in 1..8 |-> HexNum(p[i])]

\* IPv6Network(s, strict): the mask is a prefix length only
IPv6Network(s, strict) ==
  LET p == Split(s, "/")
  IN IF Len(p) > 2 \/ ~ValidV6Addr(p[1]) THEN NoNet
     ELSE IF Len(p) = 1 THEN MakeNet(6, V6Addr(p[1]), 128, 16, strict)
     ELSE IF ValidPrefixString(p[2], 128)
       THEN MakeNet(6, V6Addr(p[1]), DecVal(p[2]), 16, strict)
     ELSE NoNet

\* ipaddress.ip_network(value, strict): IPv4 first, then IPv6, else ValueError.
\* An int is a packed address: the model's ints are below 2^32, so IPv4.
ip_network(value, strict) ==
  IF Kind(value) = "int"
    THEN IF Val(value) < 0 THEN NoNet
         ELSE Net(4, [i \in 1..4 |-> (Val(value) \div Pow2(8 * (4 - i))) % 256], 32)
  ELSE IF IPv4Network(Val(value), strict).ok THEN IPv4Network(Val(value), strict)
  ELSE IPv6Network(Val(value), strict)

\* the first index of the longest run of zero hextets, and its length
ZeroRun(addr, i) ==
  IF addr[i] # 0 THEN 0
  ELSE CHOOSE n \in 1..(9 - i) :
         /\ \A j \in i..(i + n - 1) : addr[j] = 0
         /\ (i + n <= 8 => addr[i + n] # 0)

BestRunLen(addr) ==
  CHOOSE n \in 0..8 :
    /\ \E i \in 1..8 : ZeroRun(addr, i) = n
    /\ \A i \in 1..8 : ZeroRun(addr, i) <= n

BestRunStart(addr) ==
  CHOOSE i \in 1..8 :
    /\ ZeroRun(addr, i) = BestRunLen(addr)
    /\ \A j \in 1..(i - 1) : ZeroRun(addr, j) < BestRunLen(addr)

\* IPv6Address.__str__: lower-case hextets, the longest run of two or more
\* zero hextets (the first such) written '::'
V6ToStr(addr) ==
  LET hex == [i \in 1..8 |-> NatToHex(addr[i])]
      n == BestRunLen(addr)
      b == BestRunStart(addr)
  IN IF n > 1
       THEN Join(SubSeq(hex, 1, b - 1), ":") \o <<":", ":">>
              \o Join(SubSeq(hex, b + n, 8), ":")
       ELSE Join(hex, ":")

V4ToStr(addr) == Join([i \in 1..4 |-> NatToStr(addr[i])], ".")

\* str(network): the address, '/', the prefix length
NetToStr(net) ==
  (IF net.ver = 4 THEN V4ToStr(net.addr) ELSE V6ToStr(net.addr))
    \o <<"/">> \o NatToStr(net.len)

\* str(x) of an int, a str or a network
Str(x) ==
  IF Kind(x) = "int" THEN IntToStr(Val(x))
  ELSE IF Kind(x) = "net" THEN NetToStr(Val(x))
  ELSE Val(x)

(***************************************************************************)
(* int(x) and datetime.fromisoformat(x).  A conversion hands back          *)
(* [exc, value]: exc is "" and value the result, or exc names the raised   *)
(* exception.                                                              *)
(***************************************************************************)
Ok(value) == [exc |-> "", value |-> value]

Raise(exc) == [exc |-> exc, value |-> None]

\* int(x): an int is itself; a str is an optional sign and decimal digits
ToInt(x) ==
  IF Kind(x) = "int" THEN Ok(x)
  ELSE IF Kind(x) # "str" THEN Raise("TypeError")
  ELSE IF AllDigits(Val(x)) THEN Ok(PyInt(DecVal(Val(x))))
  ELSE IF Len(Val(x)) > 1 /\ Val(x)[1] = "-" /\ AllDigits(Tail(Val(x)))
    THEN Ok(PyInt(-DecVal(Tail(Val(x)))))
  ELSE IF Len(Val(x)) > 1 /\ Val(x)[1] = "+" /\ AllDigits(Tail(Val(x)))
    THEN Ok(PyInt(DecVal(Tail(Val(x)))))
  ELSE Raise("ValueError")

DaysIn(year, month) ==
  IF month \in {4, 6, 9, 11} THEN 30
  ELSE IF month # 2 THEN 31
  ELSE IF year % 4 = 0 /\ (year % 100 # 0 \/ year % 400 = 0) THEN 29
  ELSE 28

\* s[i..j] is made of decimal digits
DigitsAt(s, i, j) == j <= Len(s) /\ AllDigits(SubSeq(s, i, j))

Num(s, i, j) == DecVal(SubSeq(s, i, j))

\* 'YYYY-MM-DD', alone or followed by one separator character and 'HH:MM:SS'
IsoShape(s) ==
  /\ Len(s) \in {10, 19}
  /\ DigitsAt(s, 1, 4) /\ s[5] = "-" /\ DigitsAt(s, 6, 7) /\ s[8] = "-"
  /\ DigitsAt(s, 9, 10)
  /\ Len(s) = 19 =>
       /\ DigitsAt(s, 12, 13) /\ s[14] = ":" /\ DigitsAt(s, 15, 16)
       /\ s[17] = ":" /\ DigitsAt(s, 18, 19)

IsoFields(s) ==
  [year |-> Num(s, 1, 4), month |-> Num(s, 6, 7), day |-> Num(s, 9, 10),
   hour |-> IF Len(s) = 19 THEN Num(s, 12, 13) ELSE 0,
   minute |-> IF Len(s) = 19 THEN Num(s, 15, 16) ELSE 0,
   second |-> IF Len(s) = 19 THEN Num(s, 18, 19) ELSE 0]

\* datetime.fromisoformat(x)
fromisoformat(x) ==
  IF Kind(x) # "str" THEN Raise("TypeError")
  ELSE IF ~IsoShape(Val(x)) THEN Raise("ValueError")
  ELSE LET d == IsoFields(Val(x))
       IN IF /\ d.year >= 1 /\ d.month \in 1..12
             /\ d.day \in 1..DaysIn(d.year, d.month)
             /\ d.hour <= 23 /\ d.minute <= 59 /\ d.second <= 59
            THEN Ok([datetime |-> d])
            ELSE Raise("ValueError")

(***************************************************************************)
(* Resource detection.                                                     *)
(***************************************************************************)
\* Validators._validate_asn: a non-negative integer-like string
_validate_asn(s) == AllDigits(s)

\* Validators._validate_ip_network: standard (strict) IP-network parsing accepts it
_validate_ip_network(value) == ip_network(value, TRUE).ok

PATH == "/routing-status"

VERSION == "3.0"

\* _resource with the class attribute assigned before the resource is validated
_resource_assign_first(value) ==
  IF _validate_asn(Str(value))
    THEN [exc |-> "", value |-> ToInt(value).value, writes |-> <<"asn">>]
  ELSE IF _validate_ip_network(value)
    THEN [exc |-> "", value |-> [net |-> ip_network(value, TRUE)],
          writes |-> <<"prefix">>]
  ELSE [exc |-> "ValueError", value |-> None, writes |-> <<"prefix">>]

\* _resource with the IP-network check tried before the ASN check
_resource_network_first(value) ==
  IF _validate_ip_network(value)
    THEN [exc |-> "", value |-> [net |-> ip_network(value, TRUE)],
          writes |-> <<"prefix">>]
  ELSE IF _validate_asn(Str(value))
    THEN [exc |-> "", value |-> ToInt(value).value, writes |-> <<"asn">>]
  ELSE [exc |-> "ValueError", value |-> None, writes |-> <<>>]

\* _resource handing back a validated prefix as it was given
_resource_unnormalised(value) ==
  IF _validate_asn(Str(value))
    THEN [exc |-> "", value |-> ToInt(value).value, writes |-> <<"asn">>]
  ELSE IF _validate_ip_network(value)
    THEN [exc |-> "", value |-> value, writes |-> <<"prefix">>]
  ELSE [exc |-> "ValueError", value |-> None, writes |-> <<>>]

\* RoutingStatus._resource(value): [exc, value, writes].  exc is "" and value
\* the returned resource, or exc is the raised exception; writes holds what the
\* call assigned to the class attribute RoutingStatus.resource_type, if anything.
_resource(value) ==
  IF _validate_asn(Str(value))
    THEN [exc |-> "", value |-> ToInt(value).value, writes |-> <<"asn">>]
  ELSE IF _validate_ip_network(value)
    THEN [exc |-> "", value |-> [net |-> ip_network(value, TRUE)],
          writes |-> <<"prefix">>]
  ELSE [exc |-> "ValueError", value |-> None, writes |-> <<>>]



(***************************************************************************)
(* Response payloads (Output.data).  A dict is a function on its keys, a   *)
(* JSON string a PyStr, a JSON number a PyInt, a JSON list a sequence.     *)
(* AsnData is RESPONSE["data"] of the unit test; the others are what the   *)
(* service answers to a prefix query.                                      *)
(***************************************************************************)
Seen(prefix, origin, time) ==
  [prefix |-> PyStr(prefix), origin |-> PyStr(origin), time |-> PyStr(time)]

Peers(seeing, total) ==
  [ris_peers_seeing |-> PyInt(seeing), total_ris_peers |-> PyInt(total)]

Specific(prefix, origin) == [prefix |-> PyStr(prefix), origin |-> PyStr(origin)]

AsnData ==
  [first_seen |-> Seen(<<"1", "3", "0", ".", "3", "8", ".", "0", ".", "0", "/", "1", "6">>,
                       <<"1", "9", "6">>,
                       <<"2", "0", "0", "0", "-", "0", "8", "-", "1", "8", "T", "0", "8", ":", "0", "0", ":", "0", "0">>),
   last_seen |-> Seen(<<"2", "0", "0", "1", ":", "1", "8", "4", "0", ":", "c", "0", "0", "0", ":", ":", "/", "4", "4">>,
                      <<"1", "9", "6">>,
                      <<"2", "0", "2", "1", "-", "0", "5", "-", "1", "5", "T", "0", "8", ":", "0", "0", ":", "0", "0">>),
   visibility |-> [v4 |-> Peers(328, 328), v6 |-> Peers(339, 339)],
   announced_space |->
     [v4 |-> [prefixes |-> PyInt(9), ips |-> PyInt(65536)],
      v6 |-> ("prefixes" :> PyInt(3)) @@ ("48s" :> PyInt(48))],
   observed_neighbours |-> PyInt(1),
   resource |-> PyStr(<<"1", "9", "6">>),
   query_time |-> PyStr(<<"2", "0", "2", "1", "-", "0", "5", "-", "1", "5", "T", "0", "8", ":", "0", "0", ":", "0", "0">>)]

PrefixData ==
  [first_seen |-> Seen(<<"1", "9", "3", ".", "0", ".", "0", ".", "0", "/", "2", "1">>,
                       <<"3", "3", "3", "3">>,
                       <<"2", "0", "0", "0", "-", "0", "8", "-", "1", "8", "T", "0", "8", ":", "0", "0", ":", "0", "0">>),
   last_seen |-> Seen(<<"1", "9", "3", ".", "0", ".", "0", ".", "0", "/", "2", "1">>,
                      <<"3", "3", "3", "3">>,
                      <<"2", "0", "2", "1", "-", "0", "5", "-", "1", "5", "T", "0", "8", ":", "0", "0", ":", "0", "0">>),
   visibility |-> [v4 |-> Peers(328, 328), v6 |-> Peers(0, 339)],
   less_specifics |-> <<Specific(<<"1", "9", "3", ".", "0", ".", "0", ".", "0", "/", "1", "6">>, <<"3", "3", "3", "3">>)>>,
   more_specifics |->
     <<Specific(<<"1", "9", "3", ".", "0", ".", "0", ".", "0", "/", "2", "2">>, <<"3", "3", "3", "3">>),
       Specific(<<"1", "9", "3", ".", "0", ".", "4", ".", "1", "/", "2", "4">>, <<"1", "9", "6">>)>>,
   resource |-> PyStr(<<"1", "9", "3", ".", "0", ".", "0", ".", "0", "/", "2", "1">>),
   query_time |-> PyStr(<<"2", "0", "2", "1", "-", "0", "5", "-", "1", "5", "T", "0", "8", ":", "0", "0", ":", "0", "0">>)]

\* a prefix nobody announces more or less specifically
LonePrefixData ==
  [first_seen |-> Seen(<<"2", "0", "0", "1", ":", "1", "8", "4", "0", ":", "c", "0", "0", "0", ":", ":", "/", "4", "4">>,
                       <<"1", "9", "6">>,
                       <<"2", "0", "0", "0", "-", "0", "8", "-", "1", "8", "T", "0", "8", ":", "0", "0", ":", "0", "0">>),
   last_seen |-> Seen(<<"2", "0", "0", "1", ":", "1", "8", "4", "0", ":", "c", "0", "0", "0", ":", ":", "/", "4", "4">>,
                      <<"1", "9", "6">>,
                      <<"2", "0", "2", "1", "-", "0", "5", "-", "1", "5", "T", "0", "8", ":", "0", "0", ":", "0", "0">>),
   visibility |-> [v4 |-> Peers(0, 328), v6 |-> Peers(339, 339)],
   less_specifics |-> <<>>,
   more_specifics |-> <<>>,
   resource |-> PyStr(<<"2", "0", "0", "1", ":", "1", "8", "4", "0", ":", "c", "0", "0", "0", ":", ":", "/", "4", "4">>),
   query_time |-> PyStr(<<"2", "0", "2", "1", "-", "0", "5", "-", "1", "5", "T", "1", "6", ":", "0", "0", ":", "0", "0">>)]

\* what RIPEstat._get may hand back
Payloads == {AsnData, PrefixData, LonePrefixData}

(***************************************************************************)
(* The accessors, as functions of self._api.data and of the class          *)
(* attribute RoutingStatus.resource_type.  Each hands back                 *)
(* [exc, value, printed]: the raised exception or the returned value, and  *)
(* what it wrote with print().                                             *)
(***************************************************************************)
Return(value) == [exc |-> "", value |-> value, printed |-> <<>>]

Fail(exc) == [exc |-> exc, value |-> None, printed |-> <<>>]

Has(d, key) == key \in DOMAIN d

\* T(**d) for a named tuple type T with the given fields
NamedTuple(name, fields, d) ==
  IF DOMAIN d = fields THEN Return(name :> d) ELSE Fail("TypeError")

first_seen(data) ==
  IF ~Has(data, "first_seen") THEN Fail("KeyError")
  ELSE NamedTuple("First_seen", {"time", "origin", "prefix"}, data["first_seen"])

last_seen(data) ==
  IF ~Has(data, "last_seen") THEN Fail("KeyError")
  ELSE NamedTuple("Last_seen", {"time", "origin", "prefix"}, data["last_seen"])

visibility(data) ==
  IF ~Has(data, "visibility") THEN Fail("KeyError")
  ELSE LET d == data["visibility"]
           fields == {"ris_peers_seeing", "total_ris_peers"}
       IN IF ~Has(d, "v4") THEN Fail("KeyError")
          ELSE IF NamedTuple("RIStable", fields, d["v4"]).exc # ""
            THEN Fail("TypeError")
          ELSE IF ~Has(d, "v6") THEN Fail("KeyError")
          ELSE IF NamedTuple("RIStable", fields, d["v6"]).exc # ""
            THEN Fail("TypeError")
          ELSE Return([Visibility |->
                         [v4 |-> NamedTuple("RIStable", fields, d["v4"]).value,
                          v6 |-> NamedTuple("RIStable", fields, d["v6"]).value]])

announced_space(data, rt) ==
  IF rt # "asn" THEN Return(None)
  ELSE IF ~Has(data, "announced_space") THEN Fail("KeyError")
  ELSE LET d == data["announced_space"]
       IN IF ~Has(d, "v4") THEN Fail("KeyError")
          ELSE IF NamedTuple("V4totals", {"ips", "prefixes"}, d["v4"]).exc # ""
            THEN Fail("TypeError")
          ELSE IF ~Has(d, "v6") \/ ~Has(d["v6"], "48s") \/ ~Has(d["v6"], "prefixes")
            THEN Fail("KeyError")
          ELSE Return(
                 [Versions |->
                    [v4 |-> NamedTuple("V4totals", {"ips", "prefixes"}, d["v4"]).value,
                     v6 |-> [V6totals |-> [amount_of_48s |-> d["v6"]["48s"],
                                           prefixes |-> d["v6"]["prefixes"]]]]])

Returned == <<"r", "e", "t", "u", "r", "n">>

\* less_specifics handing back its items as a list, as more_specifics does
less_specifics_list(data, rt) ==
  IF rt # "prefix" THEN Return(None)
  ELSE IF ~Has(data, "less_specifics") THEN Fail("KeyError")
  ELSE [exc |-> "", value |-> [list |-> data["less_specifics"]],
        printed |-> data["less_specifics"]]

less_specifics(data, rt) ==
  IF rt # "prefix" THEN Return(None)
  ELSE IF ~Has(data, "less_specifics") THEN Fail("KeyError")
  ELSE [exc |-> "", value |-> PyStr(Returned), printed |-> data["less_specifics"]]

\* one item of more_specifics, its prefix parsed strictly
MoreSpecific_strict(specific) ==
  IF ~Has(specific, "prefix") THEN Raise("KeyError")
  ELSE IF ~ip_network(specific["prefix"], TRUE).ok THEN Raise("ValueError")
  ELSE IF ~Has(specific, "origin") THEN Raise("KeyError")
  ELSE IF ToInt(specific["origin"]).exc # "" THEN Raise(ToInt(specific["origin"]).exc)
  ELSE Ok([MoreSpecific |->
             [prefix |-> [net |-> ip_network(specific["prefix"], TRUE)],
              origin |-> ToInt(specific["origin"]).value]])

\* one item of more_specifics: [exc, value]
MoreSpecific(specific) ==
  IF ~Has(specific, "prefix") THEN Raise("KeyError")
  ELSE IF Kind(specific["prefix"]) \notin {"str", "int"} THEN Raise("ValueError")
  ELSE IF ~ip_network(specific["prefix"], FALSE).ok THEN Raise("ValueError")
  ELSE IF ~Has(specific, "origin") THEN Raise("KeyError")
  ELSE IF ToInt(specific["origin"]).exc # "" THEN Raise(ToInt(specific["origin"]).exc)
  ELSE Ok([MoreSpecific |->
             [prefix |-> [net |-> ip_network(specific["prefix"], FALSE)],
              origin |-> ToInt(specific["origin"]).value]])

more_specifics(data, rt) ==
  IF rt # "prefix" THEN Fail("UnboundLocalError")
  ELSE IF ~Has(data, "more_specifics") THEN Fail("KeyError")
  ELSE LET items == data["more_specifics"]
           bad == {i \in 1..Len(items) : MoreSpecific(items[i]).exc # ""}
       IN IF bad # {}
            THEN Fail(MoreSpecific(items[CHOOSE i \in bad : \A j \in bad : i <= j]).exc)
            ELSE Return([list |->
                           [i \in 1..Len(items) |-> MoreSpecific(items[i]).value]])

\* int(self._api.data[key])
IntField(data, key) ==
  IF ~Has(data, key) THEN Fail("KeyError")
  ELSE IF ToInt(data[key]).exc # "" THEN Fail(ToInt(data[key]).exc)
  ELSE Return(ToInt(data[key]).value)

observed_neighbours(data) == IntField(data, "observed_neighbours")

resource(data) == IntField(data, "resource")

query_time(data) ==
  IF ~Has(data, "query_time") THEN Fail("KeyError")
  ELSE IF fromisoformat(data["query_time"]).exc # ""
    THEN Fail(fromisoformat(data["query_time"]).exc)
  ELSE Return(fromisoformat(data["query_time"]).value)

(***************************************************************************)
(* The resources a caller passes.  Resources are the ones the life-cycle   *)
(* specification constructs with (those of the unit tests among them);     *)
(* BoundedResources adds every string of at most MaxLen characters of      *)
(* Alphabet, a few ints and further strings.                               *)
(***************************************************************************)
Resources ==
  {PyInt(196), PyInt(-1)} \cup
  {PyStr(s) : s \in {<<"1", "9", "6">>,
                      <<"0", "1", "9", "6">>,
                      <<"a", "b", "c", "d", "e", "f">>,
                      <<"1", "9", "3", ".", "0", ".", "0", ".", "0", "/", "2", "1">>,
                      <<"1", "0", ".", "0", ".", "0", ".", "1">>,
                      <<"2", "0", "0", "1", ":", "d", "b", "8", ":", ":", "1">>,
                      <<"1", "0", ".", "0", ".", "0", ".", "1", "/", "8">>}}

Alphabet == {"0", "1", "a", ":", "/", "-"}

BoundedResources ==
  Resources
  \cup {PyInt(n) : n \in {0, 7, 65536}}
  \cup {PyStr(s) : s \in UNION {[1..n -> Alphabet] : n \in 0..MaxLen}}
  \cup {PyStr(s) : s \in {<<>>,
                      <<"1", "0", ".", "0", ".", "0", ".", "0", "/", "2", "5", "5", ".", "0", ".", "0", ".", "0">>,
                      <<"1", "9", "3", ".", "0", ".", "0", ".", "0", "/", "3", "3">>,
                      <<"2", "0", "0", "1", ":", "d", "b", "8", ":", ":", "/", "3", "2">>,
                      <<"2", "0", "0", "1", ":", "d", "b", "8", ":", ":", "1", "/", "3", "2">>,
                      <<":", ":", "1", ".", "2", ".", "3", ".", "4">>,
                      <<"1", ".", "2", ".", "3">>,
                      <<":", ":", "/", "0">>,
                      <<" ", "1", "9", "6">>,
                      <<"+", "1", "9", "6">>,
                      <<"1", ":", "2", ":", "3", ":", "4", ":", "5", ":", "6", ":", "7", ":", "8">>}}

\* what RIPEstat._get does: it hands back an Output, or it raises
Responses == {[Output |-> p] : p \in Payloads} \cup {[raises |-> "RequestError"]}

(***************************************************************************)
(* State.                                                                  *)
(*   resource_type  the class attribute RoutingStatus.resource_type        *)
(*   instances      the constructed objects: api is self._api.data, own    *)
(*                  (history) the type detected for the object's resource  *)
(*   ncalls         how often RIPEstat._get was called                     *)
(*   last           the operation that ran last: its name, the object,     *)
(*                  the argument, the exception raised or the value        *)
(*                  returned, the calls of _get it made, what it printed   *)
(***************************************************************************)
VARIABLES resource_type, instances, ncalls, last

vars == <<resource_type, instances, ncalls, last>>

Accessors ==
  {"announced_space", "first_seen", "last_seen", "less_specifics", "more_specifics",
   "observed_neighbours", "query_time", "resource", "visibility"}

Init ==
  /\ resource_type = ""
  /\ instances = <<>>
  /\ ncalls = 0
  /\ last = [op |-> "", self |-> 0, arg |-> None, exc |-> "", value |-> None,
             calls |-> <<>>, printed |-> <<>>]

\* _resource tabulated over the resources, so that each is parsed once
Detected == [value \in BoundedResources |-> _resource(value)]

\* the params dict with the resource sent as the caller gave it
Params_raw(value) == [preferred_version |-> VERSION, resource |-> Str(value)]

\* the params dict of __init__: the version, and str(self._resource(resource))
Params(value) ==
  [preferred_version |-> VERSION, resource |-> Str(Detected[value].value)]

\* the class attribute after a call of _resource that wrote writes
Assigned(writes, rt) == IF Len(writes) = 0 THEN rt ELSE writes[Len(writes)]

\* RoutingStatus(RIPEstat, value): _resource, then the one call of _get, which
\* hands back an Output or raises
__init__(value) ==
  LET r == Detected[value]
      call == [path |-> PATH, params |-> Params(value)]
  IN IF r.exc # ""
       THEN /\ last' = [op |-> "__init__", self |-> 0, arg |-> value, exc |-> r.exc,
                        value |-> None, calls |-> <<>>, printed |-> <<>>]
            /\ resource_type' = Assigned(r.writes, resource_type)
            /\ UNCHANGED <<instances, ncalls>>
       ELSE /\ ncalls < MaxCalls
            /\ resource_type' = Assigned(r.writes, resource_type)
            /\ ncalls' = ncalls + 1
            /\ \E response \in Responses :
                 IF Kind(response) = "raises"
                   THEN /\ instances' = instances
                        /\ last' = [op |-> "__init__", self |-> 0, arg |-> value,
                                    exc |-> response.raises, value |-> None,
                                    calls |-> <<call>>, printed |-> <<>>]
                   ELSE /\ Len(instances) < MaxInstances
                        /\ instances' = Append(instances,
                                               [api |-> response.Output,
                                                own |-> Assigned(r.writes, "")])
                        /\ last' = [op |-> "__init__", self |-> Len(instances) + 1,
                                    arg |-> value, exc |-> "", value |-> None,
                                    calls |-> <<call>>, printed |-> <<>>]

\* reading property op of instances[i], which evaluates to res
Read(op, i, res) ==
  /\ last' = [op |-> op, self |-> i, arg |-> None, exc |-> res.exc,
              value |-> res.value, calls |-> <<>>, printed |-> res.printed]
  /\ UNCHANGED <<resource_type, instances, ncalls>>

\* announced_space gated by the type detected for the object's own resource
Read_announced_space_own ==
  \E i \in 1..Len(instances) :
    Read("announced_space", i, announced_space(instances[i].api, instances[i].own))

Read_announced_space ==
  \E i \in 1..Len(instances) :
    Read("announced_space", i, announced_space(instances[i].api, resource_type))

Read_first_seen ==
  \E i \in 1..Len(instances) : Read("first_seen", i, first_seen(instances[i].api))

Read_last_seen ==
  \E i \in 1..Len(instances) : Read("last_seen", i, last_seen(instances[i].api))

Read_less_specifics ==
  \E i \in 1..Len(instances) :
    Read("less_specifics", i, less_specifics(instances[i].api, resource_type))

Read_more_specifics ==
  \E i \in 1..Len(instances) :
    Read("more_specifics", i, more_specifics(instances[i].api, resource_type))

Read_observed_neighbours ==
  \E i \in 1..Len(instances) :
    Read("observed_neighbours", i, observed_neighbours(instances[i].api))

Read_query_time ==
  \E i \in 1..Len(instances) : Read("query_time", i, query_time(instances[i].api))

Read_resource ==
  \E i \in 1..Len(instances) : Read("resource", i, resource(instances[i].api))

Read_visibility ==
  \E i \in 1..Len(instances) : Read("visibility", i, visibility(instances[i].api))

Construct == \E value \in Resources : __init__(value)

Next ==
  \/ Construct
  \/ Read_announced_space
  \/ Read_first_seen
  \/ Read_last_seen
  \/ Read_less_specifics
  \/ Read_more_specifics
  \/ Read_observed_neighbours
  \/ Read_query_time
  \/ Read_resource
  \/ Read_visibility

\* the life cycle: constructions and reads in any order
Spec == Init /\ [][Next]_vars

\* Detection over the bounded inputs: any resource as the first construction
\* that reaches _get, and any rejected resource at any time.
Detect ==
  \E value \in BoundedResources :
    /\ ncalls = 0 \/ Detected[value].exc # ""
    /\ __init__(value)

SpecDetect == Init /\ [][Detect]_vars

(***************************************************************************)
(* Properties.                                                             *)
(***************************************************************************)
\* the resource parameter of the call of _get the last operation made
Sent == last.calls[1].params.resource

EndsWith(s, suffix) ==
  Len(s) >= Len(suffix) /\ SubSeq(s, Len(s) - Len(suffix) + 1, Len(s)) = suffix

\* C1: a resource that is neither a valid ASN nor a valid IP network makes the
\* construction fail with ValueError, with no call of _get made, no object
\* constructed and the stored resource type left as it was.
C1_InvalidResourceRejected ==
  [][(/\ last'.op = "__init__"
      /\ ~_validate_asn(Str(last'.arg))
      /\ ~_validate_ip_network(last'.arg))
       => (/\ last'.exc = "ValueError"
           /\ last'.calls = <<>>
           /\ ncalls' = ncalls
           /\ instances' = instances
           /\ resource_type' = resource_type)]_vars

\* "abcdef" rejected after a prefix had been detected and a call made
C1_Witness ==
  /\ last.op = "__init__"
  /\ last.arg = PyStr(<<"a", "b", "c", "d", "e", "f">>)
  /\ last.exc = "ValueError"
  /\ resource_type = "prefix"
  /\ ncalls = 1

\* C3: a resource whose string form is a non-negative integer is detected as an
\* ASN: the stored type is "asn" and the resource sent is that integer, also
\* when the resource would pass the IP-network check as well.
C3_IntegerIsAsn ==
  (last.op = "__init__" /\ _validate_asn(Str(last.arg))) =>
    /\ last.exc # "ValueError"
    /\ resource_type = "asn"
    /\ last.exc = "" => instances[last.self].own = "asn"
    /\ Len(last.calls) = 1
    /\ AllDigits(Sent)
    /\ DecVal(Sent) = DecVal(Str(last.arg))

\* the int 196, which ip_network accepts too (as 0.0.0.196/32), detected as an ASN
C3_Witness ==
  /\ last.op = "__init__"
  /\ last.arg = PyInt(196)
  /\ _validate_ip_network(last.arg)
  /\ last.exc = ""
  /\ resource_type = "asn"
  /\ Sent = <<"1", "9", "6">>

\* C4: a string that parses as an IP network or as a bare IP address is detected
\* as a prefix: the stored type is "prefix", the resource sent denotes the same
\* network, and a bare address is sent as a /32 (IPv4) or a /128 (IPv6) network.
C4_NetworkIsPrefix ==
  (last.op = "__init__" /\ Kind(last.arg) = "str" /\ ip_network(last.arg, TRUE).ok) =>
    /\ last.exc # "ValueError"
    /\ resource_type = "prefix"
    /\ last.exc = "" => instances[last.self].own = "prefix"
    /\ Len(last.calls) = 1
    /\ ip_network(PyStr(Sent), TRUE) = ip_network(last.arg, TRUE)
    /\ Contains(Sent, "/")
    /\ ~Contains(Val(last.arg), "/") =>
         EndsWith(Sent, IF Contains(Val(last.arg), ":") THEN <<"/", "1", "2", "8">>
                        ELSE <<"/", "3", "2">>)

\* the bare IPv6 address 2001:db8::1 sent as 2001:db8::1/128
C4_Witness ==
  /\ last.op = "__init__"
  /\ last.arg = PyStr(<<"2", "0", "0", "1", ":", "d", "b", "8", ":", ":", "1">>)
  /\ last.exc = ""
  /\ resource_type = "prefix"
  /\ Sent = <<"2", "0", "0", "1", ":", "d", "b", "8", ":", ":", "1", "/", "1", "2", "8">>

\* the string r is the normal form of the resource arg: the decimal digits of
\* the ASN without leading zeros, or a network written address/length
Canonical(arg, r) ==
  IF _validate_asn(Str(arg))
    THEN /\ AllDigits(r)
         /\ Len(r) = 1 \/ r[1] # "0"
         /\ DecVal(r) = DecVal(Str(arg))
    ELSE /\ Contains(r, "/")
         /\ ip_network(PyStr(r), TRUE) = ip_network(arg, TRUE)

\* C2: a successful construction calls _get exactly once, with the path
\* "/routing-status" and the params preferred_version "3.0" and resource, the
\* string form of the normalised resource ("196" for 196 and for "196");
\* reading an accessor calls _get no more.
C2_OneCallPerConstruction ==
  [][/\ (last'.op = "__init__" /\ last'.exc = "") =>
          /\ ncalls' = ncalls + 1
          /\ Len(instances') = Len(instances) + 1
          /\ Len(last'.calls) = 1
          /\ last'.calls[1].path = "/routing-status"
          /\ DOMAIN last'.calls[1].params = {"preferred_version", "resource"}
          /\ last'.calls[1].params.preferred_version = "3.0"
          /\ Canonical(last'.arg, last'.calls[1].params.resource)
          /\ last'.arg \in {PyInt(196), PyStr(<<"1", "9", "6">>)} =>
               last'.calls[1].params.resource = <<"1", "9", "6">>
     /\ last'.op \in Accessors => (ncalls' = ncalls /\ last'.calls = <<>>)]_vars

\* "0196" constructed second, sent as "196"
C2_Witness ==
  /\ last.op = "__init__"
  /\ last.exc = ""
  /\ last.arg = PyStr(<<"0", "1", "9", "6">>)
  /\ Sent = <<"1", "9", "6">>
  /\ ncalls = 2
  /\ Len(instances) = 2

Seen_fields == {"first_seen", "last_seen"}

\* C5, as claimed: an accessor that returns hands back the payload's values with
\* the times parsed into date-times and the numeric strings converted to ints.
C5_AccessorsCoerce ==
  (last.op \in Accessors /\ last.exc = "") =>
    LET d == instances[last.self].api
    IN /\ last.op \in Seen_fields =>
            /\ Kind(Val(last.value).time) = "datetime"
            /\ Val(last.value).time = fromisoformat(d[last.op].time).value
            /\ Kind(Val(last.value).origin) = "int"
            /\ Val(last.value).origin = ToInt(d[last.op].origin).value
            /\ Val(last.value).prefix = d[last.op].prefix
       /\ last.op = "query_time" =>
            /\ Kind(last.value) = "datetime"
            /\ last.value = fromisoformat(d.query_time).value
       /\ last.op = "resource" =>
            /\ Kind(last.value) = "int"
            /\ Str(last.value) = Val(d.resource)
       /\ last.op = "observed_neighbours" =>
            /\ Kind(last.value) = "int"
            /\ last.value = d.observed_neighbours
       /\ last.op = "visibility" =>
            /\ Val(Val(last.value).v4) = d.visibility.v4
            /\ Val(Val(last.value).v6) = d.visibility.v6

\* C6, as claimed: announced_space of an object constructed from an ASN hands
\* back Versions(v4, v6), v4 with exactly ips and prefixes of the payload's v4,
\* v6 with the payload's prefixes and its "48s" as amount_of_48s.
C6_AsnAnnouncedSpace ==
  (/\ last.op = "announced_space"
   /\ instances[last.self].own = "asn"
   /\ Has(instances[last.self].api, "announced_space")) =>
    LET d == instances[last.self].api["announced_space"]
    IN /\ last.exc = ""
       /\ Kind(last.value) = "Versions"
       /\ DOMAIN Val(last.value) = {"v4", "v6"}
       /\ DOMAIN Val(Val(last.value).v4) = {"ips", "prefixes"}
       /\ Val(Val(last.value).v4) = d["v4"]
       /\ DOMAIN Val(Val(last.value).v6) = {"amount_of_48s", "prefixes"}
       /\ Val(Val(last.value).v6).amount_of_48s = d["v6"]["48s"]
       /\ Val(Val(last.value).v6).prefixes = d["v6"]["prefixes"]

\* the type of a resource that _resource accepts
TypeOf(arg) == IF _validate_asn(Str(arg)) THEN "asn" ELSE "prefix"

ReturnedNone(l) == l.exc = "" /\ Kind(l.value) = "NoneType"

\* C7: the resource type is one value shared by all objects.  It is empty until
\* a resource is validated, every validation overwrites it (also when the call
\* of _get then fails), nothing else changes it, and the type-gated accessors
\* of every object answer by it, whatever the object's own resource was.
C7_SharedResourceType ==
  [][/\ ncalls = 0 => resource_type = ""
     /\ (last'.op = "__init__" /\ last'.exc # "ValueError") =>
          (Len(last'.calls) = 1 /\ resource_type' = TypeOf(last'.arg))
     /\ (last'.op = "__init__" /\ last'.exc = "ValueError") =>
          resource_type' = resource_type
     /\ last'.op \in Accessors => resource_type' = resource_type
     /\ last'.op = "announced_space" =>
          (ReturnedNone(last') <=> resource_type' # "asn")
     /\ last'.op = "less_specifics" =>
          (ReturnedNone(last') <=> resource_type' # "prefix")
     /\ last'.op = "more_specifics" =>
          (last'.exc = "UnboundLocalError" <=> resource_type' # "prefix")]_vars

\* the first object, constructed from an ASN, answers None for announced_space
\* once a prefix was validated whose call of _get failed
C7_Witness ==
  /\ Len(instances) = 1
  /\ instances[1].own = "asn"
  /\ Has(instances[1].api, "announced_space")
  /\ ncalls = 2
  /\ resource_type = "prefix"
  /\ last.op = "announced_space"
  /\ last.self = 1
  /\ ReturnedNone(last)

\* the record made of one item of the payload's more_specifics
IsRecordOf(rec, item) ==
  LET p == Split(Val(item.prefix), "/")
      net == Val(Val(rec).prefix)
      w == IF net.ver = 4 THEN 8 ELSE 16
  IN /\ Kind(rec) = "MoreSpecific"
     /\ DOMAIN Val(rec) = {"prefix", "origin"}
     /\ Kind(Val(rec).prefix) = "net"
     /\ net.ok
     /\ MaskAddr(net.addr, net.len, w) = net.addr
     /\ Len(p) = 2 =>
          /\ net.len = DecVal(p[2])
          /\ net.addr = MaskAddr(ip_network(PyStr(p[1]), TRUE).addr, net.len, w)
     /\ Kind(Val(rec).origin) = "int"
     /\ Str(Val(rec).origin) = Val(item.origin)

\* C8: while the resource type is prefix, more_specifics hands back a list with
\* one (prefix, origin) record per item of the payload's more_specifics, in
\* order, the prefix parsed as a network with its host bits masked, the origin
\* an int; no item, empty list.
C8_MoreSpecifics ==
  (/\ last.op = "more_specifics"
   /\ resource_type = "prefix"
   /\ Has(instances[last.self].api, "more_specifics")) =>
    LET items == instances[last.self].api["more_specifics"]
    IN /\ last.exc = ""
       /\ Kind(last.value) = "list"
       /\ DOMAIN Val(last.value) = 1..Len(items)
       /\ \A i \in 1..Len(items) : IsRecordOf(Val(last.value)[i], items[i])
       /\ instances[last.self].api = PrefixData =>
            /\ Val(Val(Val(last.value)[2]).prefix) = Net(4, <<193, 0, 4, 0>>, 24)
            /\ Val(Val(last.value)[2]).origin = PyInt(196)

\* 193.0.4.1/24 of origin "196" handed back as 193.0.4.0/24 of origin 196
C8_Witness ==
  /\ last.op = "more_specifics"
  /\ last.exc = ""
  /\ Kind(last.value) = "list"
  /\ Len(Val(last.value)) = 2
  /\ instances[last.self].api["more_specifics"][2].prefix = PyStr(<<"1", "9", "3", ".", "0", ".", "4", ".", "1", "/", "2", "4">>)
  /\ Val(Val(Val(last.value)[2]).prefix).addr = <<193, 0, 4, 0>>

\* C9: while the resource type is prefix, less_specifics goes through every
\* item of the payload's less_specifics (KeyError without the key) and hands
\* back the string "return", never a list; otherwise it hands back None and
\* does not look at the payload.
C9_LessSpecifics ==
  last.op = "less_specifics" =>
    LET d == instances[last.self].api
    IN IF resource_type = "prefix"
         THEN IF Has(d, "less_specifics")
                THEN /\ last.exc = ""
                     /\ last.value = PyStr(<<"r", "e", "t", "u", "r", "n">>)
                     /\ last.printed = d["less_specifics"]
                ELSE last.exc = "KeyError"
         ELSE ReturnedNone(last) /\ last.printed = <<>>

\* one item gone through, "return" handed back
C9_Witness ==
  /\ last.op = "less_specifics"
  /\ resource_type = "prefix"
  /\ Len(last.printed) = 1
  /\ Kind(last.value) = "str"
  /\ Val(last.value) = <<"r", "e", "t", "u", "r", "n">>

\* C10, as claimed: a type-gated accessor read while the resource type does not
\* match its gate raises nothing and hands back None (or an empty list).
C10_GateMismatchReturnsNothing ==
  /\ (last.op = "announced_space" /\ resource_type # "asn") => ReturnedNone(last)
  /\ (last.op \in {"less_specifics", "more_specifics"} /\ resource_type # "prefix") =>
       /\ last.exc = ""
       /\ \/ Kind(last.value) = "NoneType"
          \/ Kind(last.value) = "list" /\ Val(last.value) = <<>>

====
